---- MODULE Spec2Model ----
(***************************************************************************)
(* Page-boundary discovery of amocrm.PaginationService                     *)
(* (src/amocrm/pagination.go): FindTotalPages (exponential growth followed *)
(* by binary search) and FindTotalPagesConcurrent (exponential growth      *)
(* followed by a ternary search with two parallel probes per round).       *)
(*                                                                         *)
(* One caller invokes the two finders, one invocation at a time, against   *)
(* one PageChecker and one context.  A step of the model is the code the   *)
(* finder runs between two blocking points: from the return of one checker *)
(* call (or of wg.Wait) to the next checker call (or to the return).       *)
(***************************************************************************)
EXTENDS Integers, Sequences, FiniteSets

\* ---------------------------------------------------------------- bounds
\* largest page that can hold data (largest true boundary of a monotone probe)
MaxN == 33
\* largest explicit ceiling the caller passes, besides the default itself
MaxCeil == 17
\* how far below zero the ceilings the caller passes go (0 and below ask for the default)
MaxNegCeil == 1
\* largest number of contacts of the remote collection
MaxItems == 5
\* largest Limit of the caller's ContactsFilter
MaxLimit == 3
\* OAuth2 tokens the server issues to the client in one run
MaxTokens == 3
\* HTTP attempts of one call of Client.do the model follows
MaxAttempts == 3

\* -------------------------------------------------------------- constants
DefaultMaxPage == 100000
\* right-left at or below which binarySearchConcurrent scans linearly
LinearScanWidth == 3
\* buffer of the channel `results` of a round
ResultsCap == 2

VARIABLES
    mode,            \* "mono": checker is page <= totalPages; "any": arbitrary
                     \* checker; "contacts": CreateContactsPageChecker(filter)
    totalPages,      \* the true boundary of the monotone checker
    totalItems,      \* contacts in the remote collection ("contacts")
    filterLimit,     \* Limit of the ContactsFilter the caller passes ("contacts")
    cancelled,       \* ctx.Done() is closed
    alg,             \* the finder being run: "seq" | "conc" | "none"
    maxPageArg,      \* the maxPage argument the caller passes
    cancelledAtCall, \* ctx was already cancelled when the finder was called
    pc,              \* position of the finder
    loc,             \* the finder's local variables
    running,         \* goroutines of the round whose checker call is in flight
    results,         \* the buffered channel `results` of the round
    result,          \* returned page count
    err,             \* returned error
    log,             \* checker calls of this invocation, in completion order
    issued,          \* checker calls of this invocation, in the order they were issued
    fetched,         \* fetcher calls made by the checker in this invocation
    ret,             \* what each finder returned last against the monotone checker
    currentToken,    \* Client.currentToken
    expired,         \* access tokens whose ExpiresAt has passed
    tokenMu,         \* Client.tokenMu: read holds counted, goroutine holding the write lock
    fatal,           \* the runtime stopped the process with a fatal error
    req              \* the goroutines calling Client.do

\* the checker and the remote collection behind it
env == <<mode, totalPages, totalItems, filterLimit>>

\* the OAuth2 client
auth == <<currentToken, expired, tokenMu, fatal, req>>

\* the finders, their checker and their caller
finder == <<mode, totalPages, totalItems, filterLimit, cancelled, alg, maxPageArg,
            cancelledAtCall, pc, loc, running, results, result, err, log, issued,
            fetched, ret>>

vars == <<mode, totalPages, totalItems, filterLimit, cancelled, alg, maxPageArg,
          cancelledAtCall, pc, loc, running, results, result, err, log, issued,
          fetched, ret, currentToken, expired, tokenMu, fatal, req>>

Algs == {"seq", "conc"}

\* ------------------------------------------------------------------ errors
\* An error value: the message FindTotalPages* wraps it in (fmt.Errorf
\* "...: %w"), the kind of the wrapped error and, for a checker error, the
\* page whose probe produced it.
Nil == [msg |-> "", cause |-> "nil", page |-> 0]
CheckerErr(p) == [msg |-> "", cause |-> "checker", page |-> p]
CtxErr == [msg |-> "", cause |-> "context canceled", page |-> 0]
Wrap(m, e) == [e EXCEPT !.msg = m]

\* What the caller keeps of an invocation; None before the first one.
None == [result |-> -1, err |-> Nil, issued |-> <<>>, arg |-> 0, cancelledAtCall |-> FALSE]

\* ------------------------------------------------------- remote collection
\* Links of a list response; Links{} when the body was not decoded.
NoLinks == [self |-> "", next |-> ""]

\* The list endpoint for page f.Page of size f.Limit over a collection of k
\* items, read through GetJSON into a zero response: a page past the end is
\* answered 204 No Content and leaves the links empty.
ListWithResponse(k, f) ==
    IF (f.Page - 1) * f.Limit < k
    THEN [self |-> "url", next |-> IF f.Page * f.Limit < k THEN "url" ELSE ""]
    ELSE NoLinks

\* The filter CreateContactsPageChecker sends for page p: a copy of the
\* caller's filter with Limit and Page overwritten.
ProbeFilter(filter, p) == [filter EXCEPT !.Limit = 1, !.Page = p]

\* What one call of the fetcher of CreateContactsPageChecker for page p can
\* return: the links of the list response, or the error of a failed request.
Fetches(p) ==
    {[called |-> TRUE, err |-> Nil,
      links |-> ListWithResponse(totalItems,
                  ProbeFilter([Limit |-> filterLimit, Page |-> 0], p))],
     [called |-> TRUE, err |-> CheckerErr(p), links |-> NoLinks]}

\* A checker call that involves no fetcher.
NoFetch == [called |-> FALSE, err |-> Nil, links |-> NoLinks]

\* ----------------------------------------------------------------- checker
\* CreatePageChecker reading _links.next instead of _links.self.
PageCheckerOf_HasNext(f) ==
    IF f.err # Nil
    THEN [hasData |-> FALSE, err |-> f.err]
    ELSE [hasData |-> f.links.next # "", err |-> Nil]

\* The PageChecker CreatePageChecker builds, applied to what the fetcher returned.
PageCheckerOf(f) ==
    IF f.err # Nil
    THEN [hasData |-> FALSE, err |-> f.err]
    ELSE [hasData |-> f.links.self # "", err |-> Nil]

\* What one call of the PageChecker for page p can do: the fetcher call it
\* makes (if it is built on a fetcher) and what it returns.
Probes(p) ==
    CASE mode = "mono" ->
           {[fetch |-> NoFetch, out |-> [hasData |-> p <= totalPages, err |-> Nil]]}
      [] mode = "any" ->
           {[fetch |-> NoFetch, out |-> o] :
               o \in {[hasData |-> FALSE, err |-> Nil],
                      [hasData |-> FALSE, err |-> CheckerErr(p)]}
                     \cup (IF p <= MaxN THEN {[hasData |-> TRUE, err |-> Nil]} ELSE {})}
      [] OTHER ->
           {[fetch |-> f, out |-> PageCheckerOf(f)] : f \in Fetches(p)}

\* What one call of the PageChecker for page p can return.
Outcomes(p) == {pr.out : pr \in Probes(p)}

\* The value sent on the channel of a round.
LogEntry(p, out) == [page |-> p, hasData |-> out.hasData, err |-> out.err]

\* The record of a completed checker call.
LogRec(ph, p, out) == [page |-> p, hasData |-> out.hasData, err |-> out.err, phase |-> ph]

\* The fetcher calls after the checker call pr for page p.
Fetched(p, pr) ==
    IF pr.fetch.called
    THEN Append(fetched, [page |-> p, links |-> pr.fetch.links, err |-> pr.fetch.err])
    ELSE fetched

\* -------------------------------------------------------- pure computations
\* NormalizeMaxPage that takes 0 for a ceiling.
NormalizeMaxPage_ZeroKept(m) == IF m < 0 THEN DefaultMaxPage ELSE m

NormalizeMaxPage(m) == IF m <= 0 THEN DefaultMaxPage ELSE m

maxPage == NormalizeMaxPage(maxPageArg)

\* NextPage without the clamp to maxPage.
NextPage_NoClamp(p, m) == p * 2

\* NextPage growing by one page instead of doubling.
NextPage_PlusOne(p, m) == IF p + 1 > m THEN m ELSE p + 1

\* NextPage clamping one page above maxPage.
NextPage_ClampAbove(p, m) == IF p * 2 > m THEN m + 1 ELSE p * 2

NextPage(p, m) == IF p * 2 > m THEN m ELSE p * 2

\* Mid probing the left end of the window.
Mid_LeftEnd(l, r) == l

Mid(l, r) == l + (r - l) \div 2

Mid1(l, r) == l + (r - l) \div 3

\* Mid2 computed with the divisor of Mid1.
Mid2_AsMid1(l, r) == l + (r - l) \div 3

Mid2(l, r) == l + (2 * (r - l)) \div 3

NoLocals == [page |-> 0, nextPage |-> 0, upperBound |-> 0, left |-> 0, right |-> 0,
             lastValidPage |-> 0, mid |-> 0, mid1 |-> 0, mid2 |-> 0]

\* A configuration: where the finder is after a step.
Cfg(p, l, r, e) == [pc |-> p, loc |-> l, result |-> r, err |-> e]

Finish(l, r, e) == Cfg("done", l, r, e)

\* ------------------------------------------------------------ binarySearch
\* SeqLoop without the look at ctx.Done().
SeqLoop_NoCtxCheck(l) ==
    IF l.left <= l.right
    THEN Cfg("bsearch", [l EXCEPT !.mid = Mid(l.left, l.right)], 0, Nil)
    ELSE Finish(l, l.lastValidPage, Nil)

\* Top of the loop of binarySearch with the given window.
SeqLoop(l) ==
    IF l.left <= l.right
    THEN IF cancelled
         THEN Finish(l, 0, Wrap("binary search failed", CtxErr))
         ELSE Cfg("bsearch", [l EXCEPT !.mid = Mid(l.left, l.right)], 0, Nil)
    ELSE Finish(l, l.lastValidPage, Nil)

\* AfterBinary reading a failed probe as an empty page.
AfterBinary_ErrAsEmpty(l, out) ==
    IF out.err = Nil /\ out.hasData
    THEN SeqLoop([l EXCEPT !.lastValidPage = l.mid, !.left = l.mid + 1])
    ELSE SeqLoop([l EXCEPT !.right = l.mid - 1])

\* AfterBinary that moves left past mid without recording mid.
AfterBinary_BestNotRecorded(l, out) ==
    IF out.err # Nil
    THEN Finish(l, 0, Wrap("binary search failed", out.err))
    ELSE IF out.hasData
         THEN SeqLoop([l EXCEPT !.left = l.mid + 1])
         ELSE SeqLoop([l EXCEPT !.right = l.mid - 1])

\* binarySearch after checker(ctx, mid) returned out.
AfterBinary(l, out) ==
    IF out.err # Nil
    THEN Finish(l, 0, Wrap("binary search failed", out.err))
    ELSE IF out.hasData
         THEN SeqLoop([l EXCEPT !.lastValidPage = l.mid, !.left = l.mid + 1])
         ELSE SeqLoop([l EXCEPT !.right = l.mid - 1])

\* -------------------------------------------------- binarySearchConcurrent
\* Top of the loop of binarySearchConcurrent with the given window.
ConcLoop(l) ==
    IF l.left <= l.right
    THEN IF cancelled
         THEN Finish(l, 0, Wrap("binary search failed", CtxErr))
         ELSE IF l.right - l.left <= LinearScanWidth
              THEN Cfg("linear", [l EXCEPT !.page = l.right], 0, Nil)
              ELSE Cfg("round", [l EXCEPT !.mid1 = Mid1(l.left, l.right),
                                          !.mid2 = Mid2(l.left, l.right)], 0, Nil)
    ELSE Finish(l, l.lastValidPage, Nil)

\* AfterLinear that records a page with data and scans on below it.
AfterLinear_KeepsScanning(l, out) ==
    IF out.err # Nil
    THEN Finish(l, 0, Wrap("binary search failed", out.err))
    ELSE IF l.page - 1 >= l.left
         THEN Cfg("linear", [l EXCEPT !.page = l.page - 1,
                                      !.lastValidPage = IF out.hasData THEN l.page
                                                        ELSE l.lastValidPage], 0, Nil)
         ELSE Finish(l, IF out.hasData THEN l.page ELSE l.lastValidPage, Nil)

\* The linear scan after checker(ctx, page) returned out.
AfterLinear(l, out) ==
    IF out.err # Nil
    THEN Finish(l, 0, Wrap("binary search failed", out.err))
    ELSE IF out.hasData
         THEN Finish(l, l.page, Nil)
         ELSE IF l.page - 1 >= l.left
              THEN Cfg("linear", [l EXCEPT !.page = l.page - 1], 0, Nil)
              ELSE Finish(l, l.lastValidPage, Nil)

\* The first error in the channel, in the order the results were sent.
RECURSIVE FirstErr(_)
FirstErr(ch) ==
    IF ch = <<>> THEN Nil
    ELSE IF Head(ch).err # Nil THEN Head(ch).err
    ELSE FirstErr(Tail(ch))

\* The flags mid1HasData / mid2HasData after reading the channel in the
\* order the results were sent: a result for mid1 sets the first, any other
\* result for mid2 sets the second.
RECURSIVE ReadResults(_, _, _)
ReadResults(ch, l, acc) ==
    IF ch = <<>> THEN acc
    ELSE LET res == Head(ch)
         IN ReadResults(Tail(ch), l,
               IF res.page = l.mid1 THEN [acc EXCEPT !.mid1HasData = res.hasData]
               ELSE IF res.page = l.mid2 THEN [acc EXCEPT !.mid2HasData = res.hasData]
               ELSE acc)

Flags(l, ch) == ReadResults(ch, l, [mid1HasData |-> FALSE, mid2HasData |-> FALSE])

\* AfterRound that moves left past mid1 without recording mid1.
AfterRound_Mid1NotRecorded(l, ch) ==
    IF FirstErr(ch) # Nil
    THEN Finish(l, 0, Wrap("binary search failed", FirstErr(ch)))
    ELSE IF Flags(l, ch).mid2HasData
         THEN ConcLoop([l EXCEPT !.lastValidPage = l.mid2, !.left = l.mid2 + 1])
         ELSE IF Flags(l, ch).mid1HasData
              THEN ConcLoop([l EXCEPT !.left = l.mid1 + 1, !.right = l.mid2 - 1])
              ELSE ConcLoop([l EXCEPT !.right = l.mid1 - 1])

\* AfterRound that takes the first result received for mid1's and the
\* second for mid2's.
AfterRound_ByArrival(l, ch) ==
    IF FirstErr(ch) # Nil
    THEN Finish(l, 0, Wrap("binary search failed", FirstErr(ch)))
    ELSE IF ch[2].hasData
         THEN ConcLoop([l EXCEPT !.lastValidPage = l.mid2, !.left = l.mid2 + 1])
         ELSE IF ch[1].hasData
              THEN ConcLoop([l EXCEPT !.lastValidPage = l.mid1, !.left = l.mid1 + 1,
                                      !.right = l.mid2 - 1])
              ELSE ConcLoop([l EXCEPT !.right = l.mid1 - 1])

\* AfterRound that looks for an error in the first result received only.
AfterRound_FirstResultOnly(l, ch) ==
    IF Head(ch).err # Nil
    THEN Finish(l, 0, Wrap("binary search failed", Head(ch).err))
    ELSE IF Flags(l, ch).mid2HasData
         THEN ConcLoop([l EXCEPT !.lastValidPage = l.mid2, !.left = l.mid2 + 1])
         ELSE IF Flags(l, ch).mid1HasData
              THEN ConcLoop([l EXCEPT !.lastValidPage = l.mid1, !.left = l.mid1 + 1,
                                      !.right = l.mid2 - 1])
              ELSE ConcLoop([l EXCEPT !.right = l.mid1 - 1])

\* The round after wg.Wait(): read the channel, move the window.
AfterRound(l, ch) ==
    IF FirstErr(ch) # Nil
    THEN Finish(l, 0, Wrap("binary search failed", FirstErr(ch)))
    ELSE IF Flags(l, ch).mid2HasData
         THEN ConcLoop([l EXCEPT !.lastValidPage = l.mid2, !.left = l.mid2 + 1])
         ELSE IF Flags(l, ch).mid1HasData
              THEN ConcLoop([l EXCEPT !.lastValidPage = l.mid1, !.left = l.mid1 + 1,
                                      !.right = l.mid2 - 1])
              ELSE ConcLoop([l EXCEPT !.right = l.mid1 - 1])

\* ----------------------------------------------- FindTotalPages[Concurrent]
\* AfterUpper without the early return at upperBound = maxPage.
AfterUpper_NoEarlyReturn(l, ub) ==
    LET w == [l EXCEPT !.upperBound = ub, !.left = ub \div 2, !.right = ub,
                       !.lastValidPage = ub \div 2]
    IN IF alg = "seq" THEN SeqLoop(w) ELSE ConcLoop(w)

\* After findUpperBound returned ub without error.
AfterUpper(l, ub) ==
    IF ub = maxPage
    THEN Finish([l EXCEPT !.upperBound = ub], maxPage, Nil)
    ELSE LET w == [l EXCEPT !.upperBound = ub, !.left = ub \div 2, !.right = ub,
                            !.lastValidPage = ub \div 2]
         IN IF alg = "seq" THEN SeqLoop(w) ELSE ConcLoop(w)

\* Top of the loop of findUpperBound / findUpperBoundConcurrent.
UpperLoop(l) ==
    IF l.page < maxPage
    THEN Cfg("upper", [l EXCEPT !.nextPage = NextPage(l.page, maxPage)], 0, Nil)
    ELSE AfterUpper(l, maxPage)

\* findUpperBound after checker(ctx, nextPage) returned out.
AfterUpperProbe(l, out) ==
    IF out.err # Nil
    THEN Finish(l, 0, Wrap("failed to find upper bound", out.err))
    ELSE IF ~out.hasData
         THEN AfterUpper(l, l.nextPage)
         ELSE UpperLoop([l EXCEPT !.page = l.nextPage])

\* AfterPage1 that goes on to the exponential phase over an empty page 1.
AfterPage1_NoEmptyCheck(l, out) ==
    IF out.err # Nil
    THEN Finish(l, 0, Wrap("failed to check page 1", out.err))
    ELSE UpperLoop([l EXCEPT !.page = 1])

\* FindTotalPages after checker(ctx, 1) returned out.
AfterPage1(l, out) ==
    IF out.err # Nil
    THEN Finish(l, 0, Wrap("failed to check page 1", out.err))
    ELSE IF ~out.hasData
         THEN Finish(l, 0, Nil)
         ELSE UpperLoop([l EXCEPT !.page = 1])

\* ------------------------------------------------------------ OAuth2 client
\* Goroutines that call Client.do (such as the two probes of a round).
Goroutines == {1, 2}

\* A *Token: its access token (0 for a nil pointer) and whether it carries a
\* refresh token.
NoToken == [access |-> 0, refresh |-> FALSE]

\* Token.IsExpired.
IsExpired(t) == t.access \in expired

Unlocked == [readers |-> 0, writer |-> 0]

\* A call of Client.do: position, the local `token` of addAuth, the token
\* addAuth found expired, the caller of refreshToken, the HTTP attempts
\* made, the access token of the last request sent and the outcome.
NoRequest == [pc |-> "idle", token |-> NoToken, stale |-> NoToken, caller |-> "",
              attempts |-> 0, sent |-> 0, out |-> ""]

\* Status codes the API can answer a request that carries access token a.
Statuses(a) == IF a \in expired THEN {401} ELSE {200, 401, 500}

\* ------------------------------------------------------------------- state
\* Pages whose checker call is in flight.
InFlight ==
    CASE pc = "page1" -> {1}
      [] pc = "upper" -> {loc.nextPage}
      [] pc = "bsearch" -> {loc.mid}
      [] pc = "linear" -> {loc.page}
      [] pc = "round" -> {IF g = 1 THEN loc.mid1 ELSE loc.mid2 : g \in running}
      [] OTHER -> {}

\* The ceilings the caller passes.
Ceilings == ((0 - MaxNegCeil)..MaxCeil) \cup {DefaultMaxPage}

\* The ceilings a caller that passed c before passes later: the same one, or
\* another way of asking for the default.
CallerCeilings(c) ==
    IF c <= 0 \/ c = DefaultMaxPage
    THEN {d \in Ceilings : d <= 0 \/ d = DefaultMaxPage}
    ELSE {c}

Init ==
    /\ mode \in {"mono", "any", "contacts"}
    /\ totalPages \in 0..MaxN
    /\ mode # "mono" => totalPages = 0
    /\ totalItems \in 0..MaxItems
    /\ filterLimit \in 0..MaxLimit
    /\ IF mode = "contacts" THEN filterLimit >= 1 ELSE totalItems = 0 /\ filterLimit = 0
    /\ cancelled = FALSE
    /\ alg = "none"
    /\ maxPageArg \in Ceilings
    /\ cancelledAtCall = FALSE
    /\ pc = "idle"
    /\ loc = NoLocals
    /\ running = {}
    /\ results = <<>>
    /\ result = 0
    /\ err = Nil
    /\ log = <<>>
    /\ issued = <<>>
    /\ fetched = <<>>
    /\ ret = [a \in Algs |-> None]
    /\ currentToken = NoToken
    /\ expired = {}
    /\ tokenMu = Unlocked
    /\ fatal = FALSE
    /\ req = [g \in Goroutines |-> NoRequest]

\* The checker calls a finder issues on reaching configuration c.
IssuedBy(c) ==
    CASE c.pc = "upper" -> <<[page |-> c.loc.nextPage, phase |-> "upper"]>>
      [] c.pc = "bsearch" -> <<[page |-> c.loc.mid, phase |-> "bsearch"]>>
      [] c.pc = "linear" -> <<[page |-> c.loc.page, phase |-> "linear"]>>
      [] c.pc = "round" -> <<[page |-> c.loc.mid1, phase |-> "round"],
                             [page |-> c.loc.mid2, phase |-> "round"]>>
      [] OTHER -> <<>>

\* Move the finder to configuration c.
Goto(c) ==
    /\ pc' = c.pc
    /\ loc' = c.loc
    /\ result' = c.result
    /\ err' = c.err
    /\ running' = IF c.pc = "round" THEN {1, 2} ELSE {}
    /\ results' = IF c.pc = "round" THEN <<>> ELSE results
    /\ issued' = issued \o IssuedBy(c)

\* The caller cancels the context (or its deadline passes).
Cancel ==
    /\ ~cancelled
    /\ cancelled' = TRUE
    /\ UNCHANGED <<auth, env, alg, maxPageArg, cancelledAtCall, pc, loc,
                   running, results, result, err, log, issued, fetched, ret>>

\* The caller calls FindTotalPages (a = "seq") or FindTotalPagesConcurrent
\* (a = "conc") with maxPage = c; the finder calls checker(ctx, 1).
Call(a, c) ==
    /\ pc = "idle"
    /\ alg' = a
    /\ maxPageArg' = c
    /\ cancelledAtCall' = cancelled
    /\ pc' = "page1"
    /\ loc' = NoLocals
    /\ running' = {}
    /\ results' = <<>>
    /\ result' = 0
    /\ err' = Nil
    /\ log' = <<>>
    /\ issued' = <<[page |-> 1, phase |-> "page1"]>>
    /\ fetched' = <<>>
    /\ UNCHANGED <<auth, env, cancelled, ret>>

\* checker(ctx, 1) returns.
Page1Done ==
    /\ pc = "page1"
    /\ \E pr \in Probes(1) :
         /\ log' = Append(log, LogRec("page1", 1, pr.out))
         /\ fetched' = Fetched(1, pr)
         /\ Goto(AfterPage1(loc, pr.out))
    /\ UNCHANGED <<auth, env, cancelled, alg, maxPageArg, cancelledAtCall, ret>>

\* checker(ctx, nextPage) of the exponential phase returns.
UpperDone ==
    /\ pc = "upper"
    /\ \E pr \in Probes(loc.nextPage) :
         /\ log' = Append(log, LogRec("upper", loc.nextPage, pr.out))
         /\ fetched' = Fetched(loc.nextPage, pr)
         /\ Goto(AfterUpperProbe(loc, pr.out))
    /\ UNCHANGED <<auth, env, cancelled, alg, maxPageArg, cancelledAtCall, ret>>

\* checker(ctx, mid) of binarySearch returns.
BinaryDone ==
    /\ pc = "bsearch"
    /\ \E pr \in Probes(loc.mid) :
         /\ log' = Append(log, LogRec("bsearch", loc.mid, pr.out))
         /\ fetched' = Fetched(loc.mid, pr)
         /\ Goto(AfterBinary(loc, pr.out))
    /\ UNCHANGED <<auth, env, cancelled, alg, maxPageArg, cancelledAtCall, ret>>

\* checker(ctx, page) of the linear scan returns.
LinearDone ==
    /\ pc = "linear"
    /\ \E pr \in Probes(loc.page) :
         /\ log' = Append(log, LogRec("linear", loc.page, pr.out))
         /\ fetched' = Fetched(loc.page, pr)
         /\ Goto(AfterLinear(loc, pr.out))
    /\ UNCHANGED <<auth, env, cancelled, alg, maxPageArg, cancelledAtCall, ret>>

\* GoroutineDone sending on an unbuffered channel, which nobody receives
\* from before wg.Wait() returns.
GoroutineDone_Unbuffered(g) ==
    /\ pc = "round"
    /\ g \in running
    /\ Len(results) < 0
    /\ LET p == IF g = 1 THEN loc.mid1 ELSE loc.mid2
       IN \E pr \in Probes(p) :
            /\ log' = Append(log, LogRec("round", p, pr.out))
            /\ fetched' = Fetched(p, pr)
            /\ results' = Append(results, LogEntry(p, pr.out))
    /\ running' = running \ {g}
    /\ UNCHANGED <<auth, env, cancelled, alg, maxPageArg, cancelledAtCall,
                   pc, loc, result, err, issued, ret>>

\* Goroutine g of the round: its checker call returns, it sends the result
\* on the channel (which blocks while the buffer is full) and signals the
\* wait group.
GoroutineDone(g) ==
    /\ pc = "round"
    /\ g \in running
    /\ Len(results) < ResultsCap
    /\ LET p == IF g = 1 THEN loc.mid1 ELSE loc.mid2
       IN \E pr \in Probes(p) :
            /\ log' = Append(log, LogRec("round", p, pr.out))
            /\ fetched' = Fetched(p, pr)
            /\ results' = Append(results, LogEntry(p, pr.out))
    /\ running' = running \ {g}
    /\ UNCHANGED <<auth, env, cancelled, alg, maxPageArg, cancelledAtCall,
                   pc, loc, result, err, issued, ret>>

\* RoundCollect without wg.Wait(): the channel is read as soon as it holds
\* a result.
RoundCollect_NoWait ==
    /\ pc = "round"
    /\ results # <<>>
    /\ Goto(AfterRound(loc, results))
    /\ UNCHANGED <<auth, env, cancelled, alg, maxPageArg, cancelledAtCall,
                   log, fetched, ret>>

\* wg.Wait() returns: close the channel, read it, decide.
RoundCollect ==
    /\ pc = "round"
    /\ running = {}
    /\ Goto(AfterRound(loc, results))
    /\ UNCHANGED <<auth, env, cancelled, alg, maxPageArg, cancelledAtCall,
                   log, fetched, ret>>

\* The finder returns (result, err) to the caller.
Return ==
    /\ pc = "done"
    /\ ret' = IF mode = "mono"
              THEN [ret EXCEPT ![alg] = [result |-> result, err |-> err,
                                         issued |-> issued, arg |-> maxPageArg,
                                         cancelledAtCall |-> cancelledAtCall]]
              ELSE ret
    /\ pc' = "idle"
    /\ loc' = NoLocals
    /\ results' = <<>>
    /\ UNCHANGED <<auth, env, cancelled, alg, maxPageArg, cancelledAtCall,
                   running, result, err, log, issued, fetched>>

Next ==
    \/ Cancel
    \/ \E a \in Algs, c \in CallerCeilings(maxPageArg) : Call(a, c)
    \/ Page1Done
    \/ UpperDone
    \/ BinaryDone
    \/ LinearDone
    \/ \E g \in {1, 2} : GoroutineDone(g)
    \/ RoundCollect
    \/ Return

Spec == Init /\ [][Next]_vars

\* The finders when every checker call returns and the two goroutines of a
\* round are scheduled fairly.
SpecFair ==
    /\ Init /\ [][Next]_vars
    /\ WF_vars(Page1Done)
    /\ WF_vars(UpperDone)
    /\ WF_vars(BinaryDone)
    /\ WF_vars(LinearDone)
    /\ \A g \in {1, 2} : WF_vars(GoroutineDone(g))
    /\ WF_vars(RoundCollect)

\* ----------------------------------------------- Client.do under OAuth2
InitAuth ==
    /\ mode = "mono" /\ totalPages = 0 /\ totalItems = 0 /\ filterLimit = 0
    /\ cancelled = FALSE /\ alg = "none" /\ maxPageArg = 0
    /\ cancelledAtCall = FALSE /\ pc = "idle" /\ loc = NoLocals
    /\ running = {} /\ results = <<>> /\ result = 0 /\ err = Nil
    /\ log = <<>> /\ issued = <<>> /\ fetched = <<>>
    /\ ret = [a \in Algs |-> None]
    /\ currentToken \in {NoToken, [access |-> 1, refresh |-> TRUE],
                         [access |-> 1, refresh |-> FALSE]}
    /\ expired \in {{}, {1}}
    /\ tokenMu = Unlocked
    /\ fatal = FALSE
    /\ req = [g \in Goroutines |-> NoRequest]

\* Goroutine g moves to position p with the fields of r.
Step(g, r) == req' = [req EXCEPT ![g] = r]

\* do returns to its caller with outcome o.
Returned(r, o) == [r EXCEPT !.pc = "done", !.out = o]

\* RWMutex.RUnlock: with no read hold left the runtime stops the process.
RUnlock ==
    IF tokenMu.readers = 0
    THEN fatal' = TRUE /\ UNCHANGED tokenMu
    ELSE tokenMu' = [tokenMu EXCEPT !.readers = tokenMu.readers - 1] /\ UNCHANGED fatal

\* Time passes the ExpiresAt of the current token.
Expire ==
    /\ ~fatal
    /\ currentToken # NoToken
    /\ currentToken.access \notin expired
    /\ expired' = expired \cup {currentToken.access}
    /\ UNCHANGED <<finder, currentToken, tokenMu, fatal, req>>

\* Goroutine g calls do (or do calls itself after a refresh): the request
\* is built and addAuth takes the read lock.
DoRLock(g) ==
    /\ ~fatal
    /\ req[g].pc \in {"idle", "retry"}
    /\ req[g].attempts < MaxAttempts
    /\ tokenMu.writer = 0
    /\ tokenMu' = [tokenMu EXCEPT !.readers = tokenMu.readers + 1]
    /\ Step(g, [req[g] EXCEPT !.pc = "rlocked", !.attempts = req[g].attempts + 1])
    /\ UNCHANGED <<finder, currentToken, expired, fatal>>

\* addAuth reads currentToken, releases the read lock and looks at the token.
AddAuthRead(g) ==
    /\ ~fatal
    /\ req[g].pc = "rlocked"
    /\ RUnlock
    /\ LET token == currentToken
       IN Step(g, IF token = NoToken
                  THEN Returned(req[g], "authentication error")
                  ELSE IF IsExpired(token)
                       THEN [req[g] EXCEPT !.pc = "expired", !.token = token,
                                           !.stale = token]
                       ELSE [req[g] EXCEPT !.pc = "send", !.token = token])
    /\ UNCHANGED <<finder, currentToken, expired>>

\* addAuth found the token expired: it releases the read lock once more.
AddAuthRUnlockAgain(g) ==
    /\ ~fatal
    /\ req[g].pc = "expired"
    /\ RUnlock
    /\ Step(g, [req[g] EXCEPT !.pc = "refresh", !.caller = "addAuth"])
    /\ UNCHANGED <<finder, currentToken, expired>>

\* refreshToken takes the write lock; without a refresh token it returns an
\* error, otherwise it posts the refresh request.
RefreshLock(g) ==
    /\ ~fatal
    /\ req[g].pc = "refresh"
    /\ tokenMu.writer = 0 /\ tokenMu.readers = 0
    /\ IF currentToken = NoToken \/ ~currentToken.refresh
       THEN /\ Step(g, Returned(req[g], IF req[g].caller = "addAuth"
                                         THEN "authentication error"
                                         ELSE "token refresh failed"))
            /\ UNCHANGED tokenMu
       ELSE /\ Step(g, [req[g] EXCEPT !.pc = "refreshing"])
            /\ tokenMu' = [tokenMu EXCEPT !.writer = g]
    /\ UNCHANGED <<finder, currentToken, expired, fatal>>

\* The token endpoint answers: on 200 the new token replaces currentToken;
\* refreshToken releases the write lock and returns to addAuth or to do.
RefreshResponse(g) ==
    /\ ~fatal
    /\ req[g].pc = "refreshing"
    /\ tokenMu' = [tokenMu EXCEPT !.writer = 0]
    /\ \/ /\ currentToken.access < MaxTokens
          /\ currentToken' = [access |-> currentToken.access + 1, refresh |-> TRUE]
          /\ Step(g, [req[g] EXCEPT !.pc = IF req[g].caller = "addAuth"
                                           THEN "reload" ELSE "retry"])
       \/ /\ UNCHANGED currentToken
          /\ Step(g, Returned(req[g], IF req[g].caller = "addAuth"
                                       THEN "authentication error"
                                       ELSE "token refresh failed"))
    /\ UNCHANGED <<finder, expired, fatal>>

\* addAuth takes the read lock again after the refresh.
AddAuthRLockAgain(g) ==
    /\ ~fatal
    /\ req[g].pc = "reload"
    /\ tokenMu.writer = 0
    /\ tokenMu' = [tokenMu EXCEPT !.readers = tokenMu.readers + 1]
    /\ Step(g, [req[g] EXCEPT !.pc = "reloading"])
    /\ UNCHANGED <<finder, currentToken, expired, fatal>>

\* addAuth reads the refreshed token and releases the read lock.
AddAuthReload(g) ==
    /\ ~fatal
    /\ req[g].pc = "reloading"
    /\ RUnlock
    /\ Step(g, [req[g] EXCEPT !.pc = "send", !.token = currentToken])
    /\ UNCHANGED <<finder, currentToken, expired>>

\* do sends the request with the token's access token and gets the answer
\* (or a transport error): 401 leads to refreshToken and a retry.
Send(g) ==
    /\ ~fatal
    /\ req[g].pc = "send"
    /\ LET r == [req[g] EXCEPT !.sent = req[g].token.access]
       IN \/ \E st \in Statuses(r.sent) :
               Step(g, CASE st = 401 -> [r EXCEPT !.pc = "refresh", !.caller = "do"]
                         [] st >= 400 -> Returned(r, "APIError")
                         [] OTHER -> Returned(r, "ok"))
          \/ Step(g, Returned(r, "request failed"))
    /\ UNCHANGED <<finder, currentToken, expired, tokenMu, fatal>>

NextAuth ==
    \/ Expire
    \/ \E g \in Goroutines : DoRLock(g)
    \/ \E g \in Goroutines : AddAuthRead(g)
    \/ \E g \in Goroutines : AddAuthRUnlockAgain(g)
    \/ \E g \in Goroutines : RefreshLock(g)
    \/ \E g \in Goroutines : RefreshResponse(g)
    \/ \E g \in Goroutines : AddAuthRLockAgain(g)
    \/ \E g \in Goroutines : AddAuthReload(g)
    \/ \E g \in Goroutines : Send(g)

SpecAuth == InitAuth /\ [][NextAuth]_vars

\* ================================================================ properties
\* Pages passed to the checker in this invocation (returned or in flight).
ProbedPages == InFlight \cup {log[i].page : i \in 1..Len(log)}

\* Positions of the log where the checker failed / reported data / no data.
Failed == {i \in 1..Len(log) : log[i].err # Nil}
WithData == {i \in 1..Len(log) : log[i].err = Nil /\ log[i].hasData}
Empty == {i \in 1..Len(log) : log[i].err = Nil /\ ~log[i].hasData}

Max(a, b) == IF a >= b THEN a ELSE b

\* C1: with the monotone checker page <= n and a ceiling c >= max(n, 1),
\* FindTotalPages returns exactly n and no error.
C1_SeqExact ==
    (mode = "mono" /\ alg = "seq" /\ pc = "done" /\ ~cancelled
       /\ maxPageArg >= Max(totalPages, 1))
    => (result = totalPages /\ err = Nil)

\* C2: with the monotone checker page <= n and a ceiling c >= max(n, 1),
\* FindTotalPagesConcurrent returns exactly n and no error, whatever the
\* order in which the two probes of a round complete.
C2_ConcExact ==
    (mode = "mono" /\ alg = "conc" /\ pc = "done" /\ ~cancelled
       /\ maxPageArg >= Max(totalPages, 1))
    => (result = totalPages /\ err = Nil)

\* C3: against the same monotone checker and ceiling, with the context never
\* cancelled, the finder that returns now agrees with what the other finder
\* returned: the same page count and the same error/no-error outcome.
C3_Equivalence ==
    (mode = "mono" /\ pc = "done" /\ ~cancelled)
    => \A a \in Algs \ {alg} :
         ret[a] # None
         => (ret[a].result = result /\ ((ret[a].err = Nil) <=> (err = Nil)))

\* C3 witness: the concurrent finder returns after a ternary round, the
\* sequential finder has returned before, and both gave the true boundary.
C3_Witness ==
    /\ mode = "mono" /\ pc = "done" /\ ~cancelled /\ alg = "conc"
    /\ loc.mid1 > 0
    /\ ret["seq"] # None
    /\ ret["seq"].result = result
    /\ result = totalPages /\ result > loc.upperBound \div 2

C5_EmptyCollection ==
    (Len(log) >= 1 /\ log[1].page = 1 /\ log[1].err = Nil /\ ~log[1].hasData)
    => /\ pc \in {"done", "idle"}
       /\ result = 0 /\ err = Nil
       /\ Len(log) = 1 /\ InFlight = {}

\* C5 witness: a finder called with the default ceiling has returned 0 after
\* the single probe of an empty page 1.
C5_Witness ==
    /\ pc = "done" /\ maxPageArg = 0 /\ result = 0 /\ err = Nil
    /\ log = <<[page |-> 1, hasData |-> FALSE, err |-> Nil, phase |-> "page1"]>>

\* C6: when a probe of the invocation failed, the finder returns result 0
\* and an error that wraps the error of a failed probe; no page whose probe
\* failed is probed again; the sequential finder has exactly one failed
\* probe, it is the last probe issued and its error is the one returned.
C6_ErrorPropagation ==
    (pc = "done" /\ Failed # {})
    => /\ result = 0
       /\ err # Nil /\ err.msg # ""
       /\ \E i \in Failed : err = Wrap(err.msg, log[i].err)
       /\ \A i \in Failed : \A j \in 1..Len(log) : j > i => log[j].page # log[i].page
       /\ alg = "seq" => (Failed = {Len(log)} /\ err = Wrap(err.msg, log[Len(log)].err))

\* C6 witness: the sequential finder returns the error of a probe that
\* failed in the binary search, after probes that succeeded.
C6_Witness ==
    /\ pc = "done" /\ alg = "seq" /\ Len(log) >= 4
    /\ Failed = {Len(log)}
    /\ err = Wrap("binary search failed", CheckerErr(loc.mid))
    /\ result = 0

\* C7: when the context is cancelled before the call, the finder returns a
\* cancellation error and no page count, for every checker and ceiling.
C7_CancelledBeforeCall ==
    (pc = "done" /\ cancelledAtCall)
    => (result = 0 /\ err.cause = CtxErr.cause)

\* C8: when every page up to the ceiling c has data, the finder returns c
\* with no error and never enters the search phase.
C8_CeilingSaturation ==
    (mode = "mono" /\ maxPageArg > 0 /\ totalPages >= maxPageArg /\ pc # "idle")
    => /\ pc \in {"page1", "upper", "done"}
       /\ loc.left = 0 /\ loc.right = 0
       /\ pc = "done" => (result = maxPageArg /\ err = Nil /\ Empty = {})

\* C8 witness: a finder has returned a ceiling that is not a power of two
\* while the collection extends beyond it.
C8_Witness ==
    /\ mode = "mono" /\ maxPageArg = 5 /\ totalPages > maxPageArg
    /\ pc = "done" /\ result = maxPageArg /\ err = Nil
    /\ Len(log) = 4

\* C9: the ceiling is returned as a successful result only when no probed
\* page was observed empty; when some probed page was observed empty, the
\* successful result is the exact boundary.
C9_NoSilentApproximation ==
    (pc = "done" /\ err = Nil /\ ~cancelled)
    => /\ result = maxPage => Empty = {}
       /\ (mode = "mono" /\ Empty # {}) => result = totalPages

\* C10: a successful result r > 0 is a page that was probed with data in this
\* invocation and is the largest such page; a successful result 0 means
\* page 1 was observed empty.
C10_ObservedBoundary ==
    (pc = "done" /\ err = Nil)
    => /\ result > 0 =>
            /\ \E i \in WithData : log[i].page = result
            /\ \A i \in WithData : log[i].page <= result
       /\ result = 0 => \E i \in Empty : log[i].page = 1

\* The run now returning and the earlier run r are comparable: the context
\* was never cancelled, or it was cancelled before both calls.
SameContext(r) == ~cancelled \/ (r.cancelledAtCall /\ cancelledAtCall)

C12_SinglePageProbes ==
    (mode = "mono" /\ alg = "seq" /\ totalPages = 1 /\ maxPageArg >= 2
       /\ pc = "done" /\ ~cancelled)
    => Len(issued) = 2

RECURSIVE Log2(_)
Log2(n) == IF n <= 1 THEN 0 ELSE 1 + Log2(n \div 2)

\* C13: for the monotone checker with n >= 1 and a ceiling >= 2n, the
\* sequential finder issues at most 2*floor(log2 n) + 6 probes.
C13_LogarithmicProbes ==
    (mode = "mono" /\ alg = "seq" /\ pc # "idle" /\ totalPages >= 1
       /\ maxPage >= 2 * totalPages)
    => Len(issued) <= 2 * Log2(totalPages) + 6

\* C13 witness: the sequential finder has found a boundary n >= 16 with
\* 2*floor(log2 n) + 3 probes.
C13_Witness ==
    /\ mode = "mono" /\ alg = "seq" /\ pc = "done" /\ totalPages >= 16
    /\ maxPage >= 2 * totalPages
    /\ result = totalPages /\ err = Nil
    /\ Len(issued) = 2 * Log2(totalPages) + 3

\* The channel with its two results in the other order.
Swapped(ch) == <<ch[2], ch[1]>>

\* C14: a finder run again with the same monotone checker, ceiling and
\* context state probes the same pages and returns the same result as its
\* previous run, whatever the completion orders of the parallel probes were;
\* and the window update of a round whose two probes succeeded does not
\* depend on the order in which the results were sent.
C14_Determinism ==
    /\ (mode = "mono" /\ pc = "done" /\ ret[alg] # None /\ SameContext(ret[alg])
          /\ ret[alg].arg = maxPageArg)
       => (ret[alg].result = result /\ ret[alg].err = err /\ ret[alg].issued = issued)
    /\ (pc = "round" /\ running = {} /\ FirstErr(results) = Nil)
       => AfterRound(loc, results) = AfterRound(loc, Swapped(results))

\* C14 witness: the concurrent finder returns for the second time, after a
\* round whose mid2 probe completed before its mid1 probe.
C14_Witness ==
    /\ mode = "mono" /\ pc = "done" /\ alg = "conc" /\ ~cancelled
    /\ ret["conc"] # None /\ ret["conc"].arg = maxPageArg
    /\ \E i \in 1..(Len(log) - 1) :
          /\ log[i].phase = "round" /\ log[i + 1].phase = "round"
          /\ log[i].page > log[i + 1].page
    /\ result = totalPages /\ ret["conc"].result = result

\* Sequential round trips of a run: the two probes of a round count once.
Trips(is) ==
    Cardinality({i \in 1..Len(is) : is[i].phase # "round"})
    + Cardinality({i \in 1..Len(is) : is[i].phase = "round"}) \div 2

\* C15: for the monotone checker with n >= 1, the concurrent finder makes at
\* most as many sequential round trips as the sequential finder issues
\* probes for the same checker and ceiling.
C15_LatencyAdvantage ==
    (mode = "mono" /\ totalPages >= 1 /\ pc = "done" /\ alg = "conc" /\ ~cancelled
       /\ ret["seq"] # None /\ ret["seq"].arg = maxPageArg)
    => Trips(issued) <= Len(ret["seq"].issued)

CeilDiv(a, b) == (a + b - 1) \div b

\* C16: for a remote collection of K contacts and a caller filter with
\* Limit L, FindTotalPages driven by CreateContactsPageChecker(filter)
\* returns ceil(K/L), the number of pages of size L.
C16_PagesAtCallerLimit ==
    (mode = "contacts" /\ alg = "seq" /\ pc = "done" /\ err = Nil /\ ~cancelled
       /\ maxPage = DefaultMaxPage)
    => result = CeilDiv(totalItems, filterLimit)

C18_CancellationIdentity ==
    (pc = "done" /\ err.cause = CtxErr.cause) => err = CtxErr

\* C19: a request whose addAuth found the current token expired does not
\* bring the process down, and it is sent with an access token newer than
\* the expired one, also when two requests meet the expired token together.
C19_AutoRefresh ==
    \A g \in Goroutines :
       req[g].stale # NoToken
       => /\ ~fatal
          /\ req[g].pc \in {"send", "done"} /\ req[g].out \in {"", "ok"}
             => req[g].token.access > req[g].stale.access

InSearch ==
    \/ pc \in {"bsearch", "linear", "round"}
    \/ (pc = "done" /\ loc.upperBound # 0 /\ loc.upperBound # maxPage)

\* C21: every probe of the binary search of the sequential finder is for a
\* page strictly between upperBound/2 and upperBound, and so for a page that
\* the exponential phase has not probed.
C21_OpenInterval ==
    (alg = "seq" /\ InSearch)
    => \A i \in 1..Len(issued) :
          issued[i].phase = "bsearch"
          => /\ loc.upperBound \div 2 < issued[i].page
             /\ issued[i].page < loc.upperBound
             /\ \A j \in 1..(i - 1) :
                   issued[j].phase \in {"page1", "upper"}
                   => issued[j].page # issued[i].page

\* The probes of the linear scan issued so far, newest first.
RECURSIVE ScanOf(_)
ScanOf(is) ==
    IF is = <<>> \/ is[Len(is)].phase # "linear" THEN <<>>
    ELSE <<is[Len(is)].page>> \o ScanOf(SubSeq(is, 1, Len(is) - 1))

\* C22: the concurrent finder launches a pair of probes only on a window
\* wider than 3; on a window of width <= 3 it probes right, right-1, ...
\* one at a time, goes on only past pages without data and not below left,
\* returns the first page found with data, and the best-known boundary when
\* the scan reaches left without finding data.
C22_LinearScan ==
    /\ pc = "round" => (alg = "conc" /\ loc.right - loc.left > LinearScanWidth)
    /\ (pc = "linear" \/ (pc = "done" /\ ScanOf(issued) # <<>>))
       => LET scan == ScanOf(issued)
              n == Len(scan)
          IN /\ alg = "conc" /\ running = {}
             /\ loc.right - loc.left <= LinearScanWidth
             /\ \A k \in 1..n : scan[k] = loc.right - (n - k)
             /\ scan[1] >= loc.left
             /\ \A k \in 1..(n - 1) :
                   LET r == log[Len(issued) - k]
                   IN r.page = scan[k + 1] /\ r.err = Nil /\ ~r.hasData
             /\ pc = "linear" => Len(log) = Len(issued) - 1
             /\ pc = "done"
                => LET r == log[Len(log)]
                   IN /\ Len(log) = Len(issued) /\ r.page = scan[1]
                      /\ (r.err = Nil /\ r.hasData) => (result = r.page /\ err = Nil)
                      /\ (r.err = Nil /\ ~r.hasData)
                         => /\ r.page = loc.left
                            /\ result = loc.lastValidPage /\ err = Nil

\* C22 witness: the scan of a window of width 3 went past two empty pages
\* and returned the third page, which has data.
C22_Witness ==
    /\ alg = "conc" /\ pc = "done" /\ err = Nil
    /\ loc.right - loc.left = LinearScanWidth
    /\ Len(ScanOf(issued)) = 3
    /\ result = loc.right - 2 /\ log[Len(log)].hasData

\* Probes issued and not yet returned.
Pending == Len(issued) - Len(log)

C24_RoundError ==
    \A i \in Failed :
       log[i].phase = "round"
       => /\ alg = "conc"
          /\ Len(issued) \in {i, i + 1}
          /\ issued[Len(issued)].phase = "round"
          /\ Len(log) <= Len(issued)
          /\ pc \in {"round", "done", "idle"}
          /\ pc = "done"
             => /\ result = 0
                /\ \E j \in Failed :
                      /\ j >= Len(log) - 1
                      /\ err = Wrap("binary search failed", log[j].err)

\* C24 witness: the probe of mid1 completed first with data, the probe of
\* mid2 failed, and the finder returned mid2's error.
C24_Witness ==
    /\ pc = "done" /\ alg = "conc" /\ Len(log) >= 2
    /\ log[Len(log) - 1].phase = "round" /\ log[Len(log) - 1].page = loc.mid1
    /\ log[Len(log) - 1].hasData /\ log[Len(log) - 1].err = Nil
    /\ log[Len(log)].err = CheckerErr(loc.mid2)
    /\ result = 0 /\ err = Wrap("binary search failed", CheckerErr(loc.mid2))

\* C25: a step taken with the context cancelled starts no iteration of the
\* search phase (no binary-search probe, no pair of probes, no linear
\* scan); when such a step reaches the top of the loop with a non-empty
\* window and no failed probe, the finder returns result 0 and the
\* cancellation error, whatever the best-known boundary; and while a probe
\* of a pair is in flight the finder stays in its round.
C25_CancellationPoints ==
    [][/\ cancelled
          => /\ ~(pc' \in {"bsearch", "round"} /\ issued' # issued)
             /\ ~(pc' = "linear" /\ pc # "linear")
             /\ (pc \in {"upper", "bsearch", "round"} /\ pc' = "done"
                   /\ loc'.right # 0 /\ loc'.left <= loc'.right
                   /\ \A i \in 1..Len(log') : log'[i].err = Nil)
                => (result' = 0 /\ err' = Wrap("binary search failed", CtxErr))
       /\ (pc = "round" /\ running # {})
          => (pc' = "round" /\ loc' = loc /\ issued' = issued)]_vars

\* C25 witness: the context was cancelled during a round and the concurrent
\* finder returned the cancellation error after that round, with a
\* best-known boundary in hand.
C25_Witness ==
    /\ pc = "done" /\ alg = "conc" /\ cancelled /\ ~cancelledAtCall
    /\ log[Len(log)].phase = "round" /\ Failed = {}
    /\ loc.lastValidPage >= 1 /\ loc.left <= loc.right
    /\ result = 0 /\ err = Wrap("binary search failed", CtxErr)

\* C27: from the creation of the search window to the return of the
\* search, 1 <= left <= right.
C27_WindowInvariant ==
    InSearch => (1 <= loc.left /\ loc.left <= loc.right)

\* C27 amended: from the creation of the search window to the return of
\* the search, 1 <= left <= right + 1 and right <= upperBound; left <= right
\* whenever a probe of the search phase is in flight, and left = right + 1
\* when the loop has run to its end.
C27_WindowAmended ==
    InSearch
    => /\ 1 <= loc.left
       /\ loc.left <= loc.right + 1
       /\ loc.right <= loc.upperBound
       /\ pc \in {"bsearch", "linear", "round"} => loc.left <= loc.right
       /\ (pc = "done" /\ loc.left > loc.right)
          => (result = loc.lastValidPage /\ err = Nil)

\* C27 witness: the concurrent finder has returned out of a loop that a
\* round ended with left = right + 1.
C27_Witness ==
    /\ pc = "done" /\ alg = "conc" /\ err = Nil
    /\ log[Len(log)].phase = "round"
    /\ loc.left = loc.right + 1
    /\ result = loc.lastValidPage

\* C28: for the monotone checker with boundary n, at every iteration of the
\* search phase of either finder the best-known page has data
\* (1 <= lastValidPage <= n), n <= right, and left is lastValidPage or
\* lastValidPage + 1; a loop that runs to its end returns n.
C28_Bracketing ==
    (mode = "mono" /\ InSearch /\ Failed = {})
    => /\ 1 <= loc.lastValidPage /\ loc.lastValidPage <= totalPages
       /\ totalPages <= loc.right \/ (pc = "done" /\ loc.left > loc.right)
       /\ loc.left \in {loc.lastValidPage, loc.lastValidPage + 1}
       /\ (pc = "done" /\ loc.left > loc.right) => result = totalPages

\* C28 witness: a second round starts with left = lastValidPage + 1 after a
\* round that found data on mid2, and the boundary still inside the window.
C28_Witness ==
    /\ mode = "mono" /\ pc = "round"
    /\ loc.lastValidPage > loc.upperBound \div 2
    /\ loc.left = loc.lastValidPage + 1
    /\ loc.left <= totalPages /\ totalPages <= loc.right

\* Some page was reported with data after a lower page was reported empty.
NonMonotone ==
    \E i \in Empty : \E j \in WithData : log[j].page > log[i].page

\* C29: when no probe fails and the context is not cancelled, a finder
\* returns no error and a result between 0 and the ceiling, whether or not
\* the answers of the checker are monotone.
C29_SafeResult ==
    (pc = "done" /\ Failed = {} /\ ~cancelled)
    => (err = Nil /\ 0 <= result /\ result <= maxPage)

\* C29 witness: a finder has returned a page after the checker reported
\* data above a page it reported empty.
C29_Witness ==
    /\ mode = "any" /\ pc = "done" /\ Failed = {} /\ ~cancelled
    /\ NonMonotone
    /\ err = Nil /\ result >= 1 /\ result <= maxPage

====
